---- MODULE Spec2Model ----
(***************************************************************************)
(* elchi-discovery: the delivery client (api/client.go), the collector     *)
(* (discovery.go), the main loop (main.go) and configuration loading       *)
(* (config.go), each with a specification of its own over shared state.    *)
(*                                                                         *)
(* Text (tokens, error messages, header values built with Sprintf) is a    *)
(* sequence of symbols: a symbol is one character or one fixed literal of  *)
(* a format string.  strings.Contains is Contains below.                   *)
(***************************************************************************)
EXTENDS Integers, Sequences, FiniteSets, TLC

\* ------------------------------------------------------------------ bounds
MaxTokenLen == 5
MaxCalls == 3
MaxTaints == 2
MaxConditions == 2
MaxAddresses == 2
MaxNodes == 2
MaxCollects == 1
MaxCycles == 2
MaxSenders == 2
MaxConcSends == 3

\* ------------------------------------------------------------------ inputs
\* Characters a credential is made of: one ordinary character and the
\* character the separator "--" is made of.
Chars == {"u", "-"}

Tokens == UNION {[1..n -> Chars] : n \in 0..MaxTokenLen}

\* cfg.Elchi.APIEndpoint: not configured, a well-formed URL, a string with no
\* scheme (url.Parse accepts it, the transport refuses it), a string that
\* url.Parse rejects.
Endpoints == {"", "https://api.example.com", "invalid-url", "://bad"}

\* The reports a caller may pass: Timestamp holds the year of the time.Time
\* (json.Marshal fails on a year outside 0..9999).
Results == {[NodeCount |-> 0, Timestamp |-> 2025],
            [NodeCount |-> 1, Timestamp |-> 10000]}

ErrorTexts == {<<>>, <<"X">>}

Statuses == {101, 200, 299, 300, 500}

\* Response bodies: nothing, bytes that are not JSON, a JSON object whose
\* "success" is a string (its "error" is X), the JSON value null, and JSON
\* objects where "success" and "error" are each present or absent.
Bodies ==
    {[kind |-> k, hasSuccess |-> FALSE, success |-> FALSE, hasError |-> FALSE, error |-> <<>>]
        : k \in {"empty", "garbage", "null"}}
    \cup {[kind |-> "mismatch", hasSuccess |-> TRUE, success |-> FALSE,
           hasError |-> TRUE, error |-> <<"X">>]}
    \cup {b \in [kind : {"object"}, hasSuccess : BOOLEAN, success : BOOLEAN,
                 hasError : BOOLEAN, error : ErrorTexts] :
            /\ (~b.hasSuccess => ~b.success)
            /\ (~b.hasError => b.error = <<>>)}

NoBody == [kind |-> "empty", hasSuccess |-> FALSE, success |-> FALSE,
           hasError |-> FALSE, error |-> <<>>]

\* What the network does with one request handed to httpClient.Do.
NoNetwork == [kind |-> "none", status |-> 0, body |-> NoBody]

Unsupported == [kind |-> "unsupported", status |-> 0, body |-> NoBody]

TransportFailures == {[kind |-> k, status |-> 0, body |-> NoBody] : k \in {"refused", "timeout"}}

Responses == [kind : {"response"}, status : Statuses, body : Bodies]

\* ------------------------------------------------------------------ state
VARIABLES
    endpoint,          \* c.config.Elchi.APIEndpoint
    token,             \* c.config.Elchi.Token
    initialCompleted,  \* Client.initialCompleted
    sent,              \* the requests handed to httpClient.Do, in order
    calls,             \* completed calls of SendDiscoveryResult
    lastOutcome,       \* what the network did in the last call
    lastErr,           \* the error the last call returned
    firstConfirmed,    \* history: index in sent of the request that got the
                       \* first 2xx response with a decoded success=true, or 0
    clusterName,       \* Service.clusterName
    apiNodes,          \* the nodes the cluster API lists, in listing order
    listFails,         \* whether Nodes().List returns an error
    serverVersion,     \* what Discovery().ServerVersion() returns
    discovered,        \* what the last call of DiscoverNodes returned
    collects,          \* completed calls of DiscoverNodes
    pc,                \* where main is: startup, collecting, sending, select, exited
    tickPending,       \* a tick waits in ticker.C (a channel of capacity one)
    cycles,            \* calls of runDiscovery started
    ticksTaken,        \* ticks received from ticker.C
    printed,           \* the payloads printed to stdout, in order
    inFlightCollect,   \* calls of DiscoverNodes started and not yet returned
    inFlightSend,      \* calls of SendDiscoveryResult started and not yet returned
    cycleCollects,     \* history: DiscoverNodes calls returned in the current cycle
    cycleSends,        \* history: SendDiscoveryResult calls made in the current cycle
    sentAtStart,       \* history: Len(sent) when the current cycle started
    cycleFailed,       \* history: the last finished cycle logged an error
    senderPc,          \* where each concurrent caller of SendDiscoveryResult is
    senderRequest,     \* the request each caller has built
    inTransit,         \* each caller's request at the transport: what the
                       \* transport will do with it and its index in sent
    started,           \* calls of SendDiscoveryResult entered by the callers
    headerLog,         \* history: each header computed, and whether a Store(true)
                       \* had been done before initialCompleted was loaded for it
    stored,            \* history: some call has done initialCompleted.Store(true)
    configFile,        \* the config file Load finds, if any
    environ,           \* the environment variables Load reads
    config,            \* what Load returned
    loads              \* completed calls of Load

clientVars == <<endpoint, token, initialCompleted, sent, calls, lastOutcome, lastErr, firstConfirmed>>

collectVars == <<clusterName, apiNodes, listFails, serverVersion, discovered, collects>>

mainVars == <<pc, tickPending, cycles, ticksTaken, printed, inFlightCollect, inFlightSend,
              cycleCollects, cycleSends, sentAtStart, cycleFailed>>

concVars == <<senderPc, senderRequest, inTransit, started, headerLog, stored>>

configVars == <<configFile, environ, config, loads>>

vars == <<clientVars, collectVars, mainVars, concVars, configVars>>

\* ------------------------------------------------------------------ text
Contains(s, sub) ==
    \E i \in 0..(Len(s) - Len(sub)) : SubSeq(s, i + 1, i + Len(sub)) = sub

Digits == <<"0", "1", "2", "3", "4", "5", "6", "7", "8", "9">>

RECURSIVE Itoa(_)
Itoa(n) == IF n < 10 THEN <<Digits[n + 1]>> ELSE Itoa(n \div 10) \o <<Digits[(n % 10) + 1]>>

nil == [isErr |-> FALSE, msg |-> <<>>]

Errorf(msg) == [isErr |-> TRUE, msg |-> msg]

\* ------------------------------------------------------------------ token
Sep == <<"-", "-">>

\* strings.Index(s, Sep) from position i on, 1-based; 0 when absent.
RECURSIVE IndexFrom(_, _)
IndexFrom(s, i) ==
    IF i + Len(Sep) - 1 > Len(s) THEN 0
    ELSE IF SubSeq(s, i, i + Len(Sep) - 1) = Sep THEN i
    ELSE IndexFrom(s, i + 1)

\* strings.SplitN(s, "--", 2)
SplitN2(s) ==
    LET i == IndexFrom(s, 1)
    IN  IF i = 0 THEN <<s>>
        ELSE <<SubSeq(s, 1, i - 1), SubSeq(s, i + Len(Sep), Len(s))>>

\* Mutant: the tenant is what follows the last separator.
RECURSIVE LastIndexFrom(_, _)
LastIndexFrom(s, i) ==
    IF i < 1 THEN 0
    ELSE IF SubSeq(s, i, i + Len(Sep) - 1) = Sep THEN i
    ELSE LastIndexFrom(s, i - 1)

extractProjectLastSplit(tok) ==
    LET i == LastIndexFrom(tok, Len(tok) - Len(Sep) + 1)
    IN  IF i = 0 THEN <<>> ELSE SubSeq(tok, i + Len(Sep), Len(tok))

\* Mutant: a credential that does not split gets a tenant of its own.
extractProjectOrDefault(tok) ==
    IF Len(SplitN2(tok)) = 2 THEN SplitN2(tok)[2] ELSE <<"default">>

extractProjectFromToken(tok) ==
    LET parts == SplitN2(tok)
    IN  IF Len(parts) = 2 THEN parts[2] ELSE <<>>

InvalidTokenFormat == Errorf(<<"invalid token format", ": expected 'uuid--project' format">>)

\* Mutant: the empty tenant is not refused.
GetDiscoveryPayloadNoCheck(result) ==
    [err |-> nil, payload |-> [Project |-> extractProjectFromToken(token), Data |-> result]]

GetDiscoveryPayload(result) ==
    LET projectID == extractProjectFromToken(token)
    IN  IF projectID = <<>>
        THEN [err |-> InvalidTokenFormat, payload |-> [Project |-> <<>>, Data |-> result]]
        ELSE [err |-> nil, payload |-> [Project |-> projectID, Data |-> result]]

\* ------------------------------------------------------------------ request
\* Mutant: the endpoint is not looked at.
SkipSendIgnoresEndpoint(ep, shouldSend) == ~shouldSend

\* The guard of the silent no-op.
SkipSend(ep, shouldSend) == ep = "" \/ ~shouldSend

\* json.Marshal(payload): time.Time refuses a year outside 0..9999.
Marshal(payload) ==
    IF payload.Data.Timestamp \in 0..9999
    THEN nil
    ELSE Errorf(<<"failed to marshal discovery payload: ", "year outside of range [0,9999]">>)

\* http.NewRequest parses the URL.
ParsesAsURL(ep) == ep # "://bad"

\* The transport serves http and https only.
HasSupportedScheme(ep) == ep = "https://api.example.com"

NewRequest(ep) ==
    IF ParsesAsURL(ep) THEN nil
    ELSE Errorf(<<"failed to create request: ", "missing protocol scheme">>)

\* Mutant: the header never leaves "true".
InitialHeaderAlwaysTrue(flag) == "true"

InitialHeader(flag) == IF flag THEN "false" ELSE "true"

\* Mutant: the bearer value is the tenant, not the raw credential.
BuildRequestBearerProject(payload, flag) ==
    [method        |-> "POST",
     url           |-> endpoint,
     ContentType   |-> "application/json",
     fromElchi     |-> "yes",
     initial       |-> InitialHeader(flag),
     hasAuth       |-> token # <<>>,
     Authorization |-> IF token # <<>> THEN <<"Bearer ">> \o payload.Project ELSE <<>>,
     body          |-> payload]

\* Mutant: the body's project is the raw credential.
BuildRequestRawProject(payload, flag) ==
    [method        |-> "POST",
     url           |-> endpoint,
     ContentType   |-> "application/json",
     fromElchi     |-> "yes",
     initial       |-> InitialHeader(flag),
     hasAuth       |-> token # <<>>,
     Authorization |-> IF token # <<>> THEN <<"Bearer ">> \o token ELSE <<>>,
     body          |-> [Project |-> token, Data |-> payload.Data]]

BuildRequest(payload, flag) ==
    [method        |-> "POST",
     url           |-> endpoint,
     ContentType   |-> "application/json",
     fromElchi     |-> "yes",
     initial       |-> InitialHeader(flag),
     hasAuth       |-> token # <<>>,
     Authorization |-> IF token # <<>> THEN <<"Bearer ">> \o token ELSE <<>>,
     body          |-> payload]

\* What httpClient.Do can come back with for this endpoint.
DoOutcomes(ep) ==
    IF HasSupportedScheme(ep) THEN TransportFailures \cup Responses ELSE {Unsupported}

\* Mutant: a transport failure is retried once.
DoWithRetry(log, req, net) ==
    IF net.kind \in {"refused", "timeout"} THEN log \o <<req, req>> ELSE Append(log, req)

\* c.httpClient.Do(req): the request is handed to the transport once.
Do(log, req, net) == Append(log, req)

\* ------------------------------------------------------------------ response
\* Mutant: the upper end of the success range is not checked.
IsSuccessStatusNoUpper(status) == status >= 200

IsSuccessStatus(status) == ~(status < 200 \/ status >= 300)

\* Mutant: an empty body (io.EOF) is not an error.
DecodeIgnoringEOF(body) ==
    [err  |-> body.kind \in {"garbage", "mismatch"},
     resp |-> [Success |-> body.kind = "object" /\ body.hasSuccess /\ body.success,
               Error   |-> IF body.kind \in {"object", "mismatch"} /\ body.hasError
                           THEN body.error ELSE <<>>]]

\* Mutant: an object without a success field counts as success.
DecodeAbsentSuccessTrue(body) ==
    [err  |-> body.kind \in {"empty", "garbage", "mismatch"},
     resp |-> [Success |-> body.kind = "object" /\ (~body.hasSuccess \/ body.success),
               Error   |-> IF body.kind \in {"object", "mismatch"} /\ body.hasError
                           THEN body.error ELSE <<>>]]

\* json.NewDecoder(resp.Body).Decode(&apiResponse): an absent field keeps its
\* zero value; null decodes to the zero APIResponse; a wrongly typed field, a
\* body that is not JSON and an empty body are errors.
Decode(body) ==
    [err  |-> body.kind \in {"empty", "garbage", "mismatch"},
     resp |-> [Success |-> body.kind = "object" /\ body.hasSuccess /\ body.success,
               Error   |-> IF body.kind \in {"object", "mismatch"} /\ body.hasError
                           THEN body.error ELSE <<>>]]

\* Mutant: the decoded error text is never put in the message.
StatusErrorStatusOnly(status, dec) ==
    Errorf(<<"API returned non-success status: ">> \o Itoa(status))

StatusError(status, dec) ==
    IF ~dec.err /\ dec.resp.Error # <<>>
    THEN Errorf(<<"API error (HTTP ">> \o Itoa(status) \o <<"): ">> \o dec.resp.Error)
    ELSE Errorf(<<"API returned non-success status: ">> \o Itoa(status))

\* Mutant: the remote error text is left out.
ProcessingFailedNoText(resp) == Errorf(<<"API processing failed">>)

ProcessingFailed(resp) == Errorf(<<"API processing failed: ">> \o resp.Error)

\* Mutant: the flag is toggled instead of set.
RecordSuccessToggle(flag) == ~flag

\* c.initialCompleted.Store(true)
RecordSuccess(flag) == TRUE

\* The part of sendDiscoveryResult after a response has arrived: the error it
\* returns and the value of initialCompleted it leaves.
HandleResponse(net, flag) ==
    IF ~IsSuccessStatus(net.status)
    THEN [err |-> StatusError(net.status, Decode(net.body)), flag |-> flag]
    ELSE LET dec == Decode(net.body)
         IN  IF dec.err THEN [err |-> nil, flag |-> flag]
             ELSE IF dec.resp.Success
                  THEN [err |-> nil, flag |-> RecordSuccess(flag)]
                  ELSE [err |-> ProcessingFailed(dec.resp), flag |-> flag]

SendFailed(net) == Errorf(<<"failed to send request: ", net.kind>>)

\* History only: the response is a confirmed remote success.
ConfirmedSuccess(net) ==
    /\ net.kind = "response"
    /\ net.status \in 200..299
    /\ net.body.kind = "object" /\ net.body.hasSuccess /\ net.body.success

\* ------------------------------------------------------------------ cluster
\* Label and taint keys (discovery.go).
LabelControlPlane == "node-role.kubernetes.io/control-plane"

LabelMaster == "node-role.kubernetes.io/master"

LabelWorker == "node-role.kubernetes.io/worker"

LabelEtcd == "node-role.kubernetes.io/etcd"

RoleLabels == {LabelControlPlane, LabelMaster, LabelWorker, LabelEtcd}

\* A node's labels are a set of keys (the values are never read): the four
\* role labels and one label that is no role.
LabelKeys == RoleLabels \cup {"kubernetes.io/hostname"}

\* Taint keys: the two the code looks for and one it does not.
TaintKeys == {LabelControlPlane, LabelMaster, "node.kubernetes.io/unschedulable"}

SeqsUpTo(S, n) == UNION {[1..k -> S] : k \in 0..n}

NodeConditions ==
    {[Type |-> "Ready", Status |-> st] : st \in {"True", "False", "Unknown"}}
    \cup {[Type |-> "MemoryPressure", Status |-> "True"]}

NodeAddresses ==
    {[Type |-> "InternalIP", Address |-> "10.0.0.1"],
     [Type |-> "InternalIP", Address |-> "10.0.0.2"],
     [Type |-> "Hostname", Address |-> "node1"]}

Node(name, labels, taints, conditions, addresses) ==
    [Name |-> name, Labels |-> labels, Taints |-> taints, Conditions |-> conditions,
     Addresses |-> addresses, KubeletVersion |-> "v1.28.2"]

ReadyTrue == [Type |-> "Ready", Status |-> "True"]

InternalIP1 == [Type |-> "InternalIP", Address |-> "10.0.0.1"]

\* Single nodes: every combination of labels and taints; every list of
\* conditions; every list of addresses.
NodeShapes ==
    {Node("node1", l, t, <<ReadyTrue>>, <<InternalIP1>>) :
        l \in SUBSET LabelKeys, t \in SeqsUpTo(TaintKeys, MaxTaints)}
    \cup {Node("node1", {}, <<>>, c, <<InternalIP1>>) : c \in SeqsUpTo(NodeConditions, MaxConditions)}
    \cup {Node("node1", {}, <<>>, <<ReadyTrue>>, a) : a \in SeqsUpTo(NodeAddresses, MaxAddresses)}

\* Nodes of the clusters with several nodes.
FewNodes ==
    {Node("cp1", {LabelControlPlane, LabelMaster}, <<LabelControlPlane>>, <<ReadyTrue>>, <<InternalIP1>>),
     Node("w1", {}, <<>>, <<[Type |-> "Ready", Status |-> "False"]>>, <<>>),
     Node("w2", {LabelWorker}, <<>>, <<>>, <<InternalIP1>>)}

Clusters == {<<n>> : n \in NodeShapes} \cup SeqsUpTo(FewNodes, MaxNodes)

ClusterNames == {"test-cluster", "prod"}

\* Discovery().ServerVersion(): an error, no error and no version, a version.
ServerVersions ==
    {[err |-> TRUE, isNil |-> TRUE, GitVersion |-> ""],
     [err |-> FALSE, isNil |-> TRUE, GitVersion |-> ""],
     [err |-> FALSE, isNil |-> FALSE, GitVersion |-> "v1.28.2"]}

\* ------------------------------------------------------------------ collector
\* Mutant: master is added next to control-plane.
LabelRolesBoth(labels) ==
    (IF LabelControlPlane \in labels THEN <<"control-plane">> ELSE <<>>)
    \o (IF LabelMaster \in labels THEN <<"master">> ELSE <<>>)
    \o (IF LabelWorker \in labels THEN <<"worker">> ELSE <<>>)
    \o (IF LabelEtcd \in labels THEN <<"etcd">> ELSE <<>>)

SlicesContains(roles, r) == \E i \in 1..Len(roles) : roles[i] = r

\* The label checks of getNodeRoles.
LabelRoles(labels) ==
    LET r1 == IF LabelControlPlane \in labels THEN <<"control-plane">> ELSE <<>>
        r2 == IF LabelMaster \in labels /\ ~SlicesContains(r1, "control-plane")
              THEN Append(r1, "master") ELSE r1
        r3 == IF LabelWorker \in labels THEN Append(r2, "worker") ELSE r2
    IN  IF LabelEtcd \in labels THEN Append(r3, "etcd") ELSE r3

\* Mutant: the taints are looked at whatever the labels gave.
TaintRolesAlways(roles, taints) ==
    IF \E i \in 1..Len(taints) : taints[i] \in {LabelControlPlane, LabelMaster}
    THEN Append(roles, "control-plane") ELSE roles

\* The taint check of getNodeRoles: the loop stops at the first match.
TaintRoles(roles, taints) ==
    IF Len(roles) = 0 /\ \E i \in 1..Len(taints) : taints[i] \in {LabelControlPlane, LabelMaster}
    THEN Append(roles, "control-plane") ELSE roles

\* Mutant: no default role.
DefaultRoleNone(roles) == roles

DefaultRole(roles) == IF Len(roles) = 0 THEN Append(roles, "worker") ELSE roles

getNodeRoles(node) == DefaultRole(TaintRoles(LabelRoles(node.Labels), node.Taints))

\* The first Ready condition decides.
RECURSIVE StatusFrom(_, _)
StatusFrom(conditions, i) ==
    IF i > Len(conditions) THEN "Unknown"
    ELSE IF conditions[i].Type = "Ready"
         THEN (IF conditions[i].Status = "True" THEN "Ready" ELSE "NotReady")
         ELSE StatusFrom(conditions, i + 1)

\* Mutant: only the first condition is looked at.
getNodeStatusFirstOnly(node) ==
    IF Len(node.Conditions) = 0 \/ node.Conditions[1].Type # "Ready" THEN "Unknown"
    ELSE IF node.Conditions[1].Status = "True" THEN "Ready" ELSE "NotReady"

getNodeStatus(node) == StatusFrom(node.Conditions, 1)

\* Mutant: an address type already in the map keeps its first address.
RECURSIVE AddressMapFirstWins(_, _, _)
AddressMapFirstWins(addresses, i, m) ==
    IF i > Len(addresses) THEN m
    ELSE AddressMapFirstWins(addresses, i + 1,
            IF \E e \in m : e[1] = addresses[i].Type THEN m
            ELSE m \cup {<<addresses[i].Type, addresses[i].Address>>})

\* nodeInfo.Addresses[type] = address, for each address in order.  The map is
\* a set of <<type, address>> pairs with one pair per type.
RECURSIVE AddressMap(_, _, _)
AddressMap(addresses, i, m) ==
    IF i > Len(addresses) THEN m
    ELSE AddressMap(addresses, i + 1,
            {e \in m : e[1] # addresses[i].Type} \cup {<<addresses[i].Type, addresses[i].Address>>})

NodeInfoOf(node) ==
    [Name      |-> node.Name,
     Roles     |-> getNodeRoles(node),
     Status    |-> getNodeStatus(node),
     Version   |-> node.KubeletVersion,
     Addresses |-> AddressMap(node.Addresses, 1, {})]

\* Mutant: the loop starts at the second node.
BuildNodesSkipFirst(items) == [i \in 1..(Len(items) - 1) |-> NodeInfoOf(items[i + 1])]

\* result.Nodes after the loop over nodes.Items.
BuildNodes(items) == [i \in 1..Len(items) |-> NodeInfoOf(items[i])]

\* Mutant: the version is taken from the answer without a fallback.
getClusterInfoNoFallback(name, version) == [Name |-> name, Version |-> version.GitVersion]

getClusterInfo(name, version) ==
    [Name    |-> name,
     Version |-> IF ~version.err /\ ~version.isNil THEN version.GitVersion ELSE "unknown"]

NoResult ==
    [Timestamp |-> 0, ClusterInfo |-> [Name |-> "", Version |-> ""], NodeCount |-> 0,
     Nodes |-> <<>>, Duration |-> ""]

NotDiscovered == [err |-> nil, isNil |-> TRUE, result |-> NoResult]

\* Mutant: the error of the node list is dropped.
DiscoverNodesIgnoringListError(name, version, fails, items) ==
    LET its == IF fails THEN <<>> ELSE items
    IN  [err |-> nil, isNil |-> FALSE,
         result |-> [Timestamp |-> 2025, ClusterInfo |-> getClusterInfo(name, version),
                     NodeCount |-> Len(its), Nodes |-> BuildNodes(its), Duration |-> "1ms"]]

\* Service.DiscoverNodes: the error and the report it returns.
DiscoverNodes(name, version, fails, items) ==
    LET clusterInfo == getClusterInfo(name, version)
    IN  IF fails
        THEN [err |-> Errorf(<<"nodes list failed">>), isNil |-> TRUE, result |-> NoResult]
        ELSE [err |-> nil, isNil |-> FALSE,
              result |-> [Timestamp   |-> 2025,
                          ClusterInfo |-> clusterInfo,
                          NodeCount   |-> Len(items),
                          Nodes       |-> BuildNodes(items),
                          Duration    |-> "1ms"]]

\* The collector has not run and no cluster is attached.
CollectIdle ==
    /\ clusterName = "test-cluster"
    /\ apiNodes = <<>>
    /\ listFails = FALSE
    /\ serverVersion = [err |-> FALSE, isNil |-> FALSE, GitVersion |-> "v1.28.2"]
    /\ discovered = NotDiscovered
    /\ collects = 0

\* No client is attached.
ClientIdle ==
    /\ endpoint = ""
    /\ token = <<>>
    /\ initialCompleted = FALSE
    /\ sent = <<>>
    /\ calls = 0
    /\ lastOutcome = NoNetwork
    /\ lastErr = nil
    /\ firstConfirmed = 0

\* No main loop is running.
MainIdle ==
    /\ pc = "exited"
    /\ tickPending = FALSE
    /\ cycles = 0
    /\ ticksTaken = 0
    /\ printed = <<>>
    /\ inFlightCollect = 0
    /\ inFlightSend = 0
    /\ cycleCollects = 0
    /\ cycleSends = 0
    /\ sentAtStart = 0
    /\ cycleFailed = FALSE

\* No concurrent callers.
ConcIdle ==
    /\ senderPc = <<>>
    /\ senderRequest = <<>>
    /\ inTransit = <<>>
    /\ started = 0
    /\ headerLog = <<>>
    /\ stored = FALSE

\* ------------------------------------------------------------------ configuration
\* The settings of Config, by field.
Settings ==
    {"DiscoveryInterval", "ClusterName", "LogLevel", "LogFormat", "LogOutput",
     "Token", "APIEndpoint", "InsecureSkipVerify"}

\* The environment variable applyEnvironmentVariables reads for each field.
EnvName ==
    [DiscoveryInterval  |-> "DISCOVERY_INTERVAL",
     ClusterName        |-> "CLUSTER_NAME",
     LogLevel           |-> "LOG_LEVEL",
     LogFormat          |-> "LOG_FORMAT",
     LogOutput          |-> "LOG_OUTPUT",
     Token              |-> "ELCHI_TOKEN",
     APIEndpoint        |-> "ELCHI_API_ENDPOINT",
     InsecureSkipVerify |-> "ELCHI_INSECURE_SKIP_VERIFY"]

EnvNames == {EnvName[k] : k \in Settings}

\* The defaults Load starts with.
Defaults ==
    [DiscoveryInterval  |-> 30,
     ClusterName        |-> <<>>,
     LogLevel           |-> <<"info">>,
     LogFormat          |-> <<"text">>,
     LogOutput          |-> <<"stdout">>,
     Token              |-> <<>>,
     APIEndpoint        |-> <<>>,
     InsecureSkipVerify |-> FALSE]

\* The values a config file gives the keys it has.
FileValues ==
    [DiscoveryInterval  |-> 45,
     ClusterName        |-> <<"file-cluster">>,
     LogLevel           |-> <<"warn">>,
     LogFormat          |-> <<"json">>,
     LogOutput          |-> <<"stderr">>,
     Token              |-> <<"f", "-", "-", "p">>,
     APIEndpoint        |-> <<"https://file.example.com">>,
     InsecureSkipVerify |-> TRUE]

\* The settings the delivery needs: the interval, the credential, the
\* endpoint, the TLS bypass.
DeliverySettings == {"DiscoveryInterval", "Token", "APIEndpoint", "InsecureSkipVerify"}

\* A config file: none found, a path that names no file, a file that is not
\* YAML, or a YAML file with some of the keys.
NoConfigFile == [kind |-> "none", keys |-> {}]

ConfigFiles ==
    {NoConfigFile, [kind |-> "missing", keys |-> {}], [kind |-> "invalid", keys |-> {}]}
    \cup {[kind |-> "yaml", keys |-> ks] : ks \in SUBSET DeliverySettings}
    \cup {[kind |-> "yaml", keys |-> Settings],
          [kind |-> "yaml", keys |-> {"DiscoveryInterval", "ClusterName", "LogLevel", "Token"}]}

\* The values an environment variable may hold; the empty text is what
\* os.Getenv returns for a variable that is unset or empty.
EnvTexts ==
    [DISCOVERY_INTERVAL         |-> {<<>>, <<"6", "0">>, <<"a", "b", "c">>, <<"-", "5">>},
     CLUSTER_NAME               |-> {<<>>, <<"env-cluster">>},
     LOG_LEVEL                  |-> {<<>>, <<"debug">>},
     LOG_FORMAT                 |-> {<<>>, <<"json">>},
     LOG_OUTPUT                 |-> {<<>>, <<"stderr">>},
     ELCHI_TOKEN                |-> {<<>>, <<"e", "-", "-", "p">>},
     ELCHI_API_ENDPOINT         |-> {<<>>, <<"https://env.example.com">>},
     ELCHI_INSECURE_SKIP_VERIFY |-> {<<>>, <<"t", "r", "u", "e">>, <<"f", "a", "l", "s", "e">>,
                                     <<"1">>, <<"y", "e", "s">>}]

EmptyEnviron == [n \in EnvNames |-> <<>>]

\* The variables of the other settings: all unset, or all set.
OtherEnvirons ==
    {[CLUSTER_NAME |-> <<>>, LOG_LEVEL |-> <<>>, LOG_FORMAT |-> <<>>, LOG_OUTPUT |-> <<>>],
     [CLUSTER_NAME |-> <<"env-cluster">>, LOG_LEVEL |-> <<"debug">>,
      LOG_FORMAT |-> <<"json">>, LOG_OUTPUT |-> <<"stderr">>]}

\* Environments: every combination for the delivery settings.
Environs ==
    {[DISCOVERY_INTERVAL         |-> i,
      CLUSTER_NAME               |-> o.CLUSTER_NAME,
      LOG_LEVEL                  |-> o.LOG_LEVEL,
      LOG_FORMAT                 |-> o.LOG_FORMAT,
      LOG_OUTPUT                 |-> o.LOG_OUTPUT,
      ELCHI_TOKEN                |-> t,
      ELCHI_API_ENDPOINT         |-> e,
      ELCHI_INSECURE_SKIP_VERIFY |-> b] :
        i \in EnvTexts.DISCOVERY_INTERVAL, t \in EnvTexts.ELCHI_TOKEN,
        e \in EnvTexts.ELCHI_API_ENDPOINT, b \in EnvTexts.ELCHI_INSECURE_SKIP_VERIFY,
        o \in OtherEnvirons}

IsDigit(c) == \E d \in 1..Len(Digits) : Digits[d] = c

DigitValue(c) == (CHOOSE d \in 1..Len(Digits) : Digits[d] = c) - 1

RECURSIVE ParseDigits(_, _, _)
ParseDigits(s, i, acc) ==
    IF i > Len(s) THEN acc ELSE ParseDigits(s, i + 1, acc * 10 + DigitValue(s[i]))

\* strconv.Atoi: an optional sign and decimal digits.
Atoi(s) ==
    LET signed == Len(s) > 0 /\ s[1] \in {"+", "-"}
        digits == IF signed THEN Tail(s) ELSE s
        ok == Len(digits) > 0 /\ \A i \in 1..Len(digits) : IsDigit(digits[i])
        n == IF ok THEN ParseDigits(digits, 1, 0) ELSE 0
    IN  [err |-> ~ok, value |-> IF signed /\ s[1] = "-" THEN 0 - n ELSE n]

TrueTexts ==
    {<<"1">>, <<"t">>, <<"T">>, <<"T", "R", "U", "E">>, <<"t", "r", "u", "e">>, <<"T", "r", "u", "e">>}

FalseTexts ==
    {<<"0">>, <<"f">>, <<"F">>, <<"F", "A", "L", "S", "E">>, <<"f", "a", "l", "s", "e">>,
     <<"F", "a", "l", "s", "e">>}

\* strconv.ParseBool
ParseBool(s) == [err |-> s \notin (TrueTexts \cup FalseTexts), value |-> s \in TrueTexts]

\* yaml.Unmarshal(data, config): a key of the file sets its field, a field the
\* file does not name keeps its value.
loadConfigFile(cfg, file) ==
    IF file.kind # "yaml"
    THEN [err |-> TRUE, cfg |-> cfg]
    ELSE [err |-> FALSE,
          cfg |-> [k \in Settings |-> IF k \in file.keys THEN FileValues[k] ELSE cfg[k]]]

\* Mutant: the environment fills only what the file left at its default.
applyEnvironmentVariablesUnderFile(cfg, env) ==
    [k \in Settings |->
        IF cfg[k] # Defaults[k] \/ env[EnvName[k]] = <<>> THEN cfg[k]
        ELSE IF k = "DiscoveryInterval"
             THEN (IF Atoi(env[EnvName[k]]).err THEN cfg[k] ELSE Atoi(env[EnvName[k]]).value)
        ELSE IF k = "InsecureSkipVerify"
             THEN (IF ParseBool(env[EnvName[k]]).err THEN cfg[k] ELSE ParseBool(env[EnvName[k]]).value)
        ELSE env[EnvName[k]]]

\* applyEnvironmentVariables: a variable that is not empty replaces the field;
\* for the interval and the TLS bypass only when it parses.
applyEnvironmentVariables(cfg, env) ==
    [DiscoveryInterval  |-> IF env["DISCOVERY_INTERVAL"] # <<>> /\ ~Atoi(env["DISCOVERY_INTERVAL"]).err
                            THEN Atoi(env["DISCOVERY_INTERVAL"]).value
                            ELSE cfg.DiscoveryInterval,
     ClusterName        |-> IF env["CLUSTER_NAME"] # <<>> THEN env["CLUSTER_NAME"] ELSE cfg.ClusterName,
     LogLevel           |-> IF env["LOG_LEVEL"] # <<>> THEN env["LOG_LEVEL"] ELSE cfg.LogLevel,
     LogFormat          |-> IF env["LOG_FORMAT"] # <<>> THEN env["LOG_FORMAT"] ELSE cfg.LogFormat,
     LogOutput          |-> IF env["LOG_OUTPUT"] # <<>> THEN env["LOG_OUTPUT"] ELSE cfg.LogOutput,
     Token              |-> IF env["ELCHI_TOKEN"] # <<>> THEN env["ELCHI_TOKEN"] ELSE cfg.Token,
     APIEndpoint        |-> IF env["ELCHI_API_ENDPOINT"] # <<>>
                            THEN env["ELCHI_API_ENDPOINT"] ELSE cfg.APIEndpoint,
     InsecureSkipVerify |-> IF /\ env["ELCHI_INSECURE_SKIP_VERIFY"] # <<>>
                               /\ ~ParseBool(env["ELCHI_INSECURE_SKIP_VERIFY"]).err
                            THEN ParseBool(env["ELCHI_INSECURE_SKIP_VERIFY"]).value
                            ELSE cfg.InsecureSkipVerify]

NotLoaded == [err |-> FALSE, isNil |-> TRUE, cfg |-> Defaults]

\* config.Load: defaults, then the file when one is found, then the
\* environment; a file that cannot be read or parsed is an error.
Load(file, env) ==
    IF file.kind = "none"
    THEN [err |-> FALSE, isNil |-> FALSE, cfg |-> applyEnvironmentVariables(Defaults, env)]
    ELSE LET f == loadConfigFile(Defaults, file)
         IN  IF f.err THEN [err |-> TRUE, isNil |-> TRUE, cfg |-> Defaults]
             ELSE [err |-> FALSE, isNil |-> FALSE, cfg |-> applyEnvironmentVariables(f.cfg, env)]

\* Load is not part of the run.
ConfigIdle ==
    /\ configFile = NoConfigFile
    /\ environ = EmptyEnviron
    /\ config = NotLoaded
    /\ loads = 0

\* ------------------------------------------------------------------ actions
Init ==
    /\ CollectIdle
    /\ MainIdle
    /\ ConcIdle
    /\ ConfigIdle
    /\ endpoint \in Endpoints
    /\ token \in Tokens
    /\ initialCompleted = FALSE
    /\ sent = <<>>
    /\ calls = 0
    /\ lastOutcome = NoNetwork
    /\ lastErr = nil
    /\ firstConfirmed = 0

\* A call that returns before httpClient.Do.
ReturnEarly(err) ==
    /\ lastErr' = err
    /\ lastOutcome' = NoNetwork
    /\ UNCHANGED <<initialCompleted, sent, firstConfirmed>>

\* What one call of Client.SendDiscoveryResult(result) does to the client,
\* start to return.
SendResult(result) ==
    /\ calls' = calls + 1
    /\ UNCHANGED <<endpoint, token>>
    /\  LET shouldSend == TRUE
            p == GetDiscoveryPayload(result)
            req == BuildRequest(p.payload, initialCompleted)
        IN  \/ /\ SkipSend(endpoint, shouldSend)
               /\ ReturnEarly(nil)
            \/ /\ ~SkipSend(endpoint, shouldSend)
               /\ p.err.isErr
               /\ ReturnEarly(p.err)
            \/ /\ ~SkipSend(endpoint, shouldSend)
               /\ ~p.err.isErr
               /\ Marshal(p.payload).isErr
               /\ ReturnEarly(Marshal(p.payload))
            \/ /\ ~SkipSend(endpoint, shouldSend)
               /\ ~p.err.isErr
               /\ ~Marshal(p.payload).isErr
               /\ NewRequest(endpoint).isErr
               /\ ReturnEarly(NewRequest(endpoint))
            \/ /\ ~SkipSend(endpoint, shouldSend)
               /\ ~p.err.isErr
               /\ ~Marshal(p.payload).isErr
               /\ ~NewRequest(endpoint).isErr
               /\ \E net \in DoOutcomes(endpoint) :
                    /\ sent' = Do(sent, req, net)
                    /\ lastOutcome' = net
                    /\ IF net.kind # "response"
                       THEN /\ lastErr' = SendFailed(net)
                            /\ UNCHANGED initialCompleted
                       ELSE LET h == HandleResponse(net, initialCompleted)
                            IN  /\ lastErr' = h.err
                                /\ initialCompleted' = h.flag
                    /\ firstConfirmed' =
                         IF firstConfirmed = 0 /\ ConfirmedSuccess(net)
                         THEN Len(sent') ELSE firstConfirmed

\* One call of Client.SendDiscoveryResult on a client of its own.
SendDiscoveryResult ==
    /\ calls < MaxCalls
    /\ UNCHANGED <<collectVars, mainVars, concVars, configVars>>
    /\ \E result \in Results : SendResult(result)

Next == SendDiscoveryResult

Spec == Init /\ [][Next]_vars

\* The collector alone, on one cluster.
InitCollect ==
    /\ ClientIdle
    /\ MainIdle
    /\ ConcIdle
    /\ ConfigIdle
    /\ clusterName \in ClusterNames
    /\ apiNodes \in Clusters
    /\ listFails \in BOOLEAN
    /\ serverVersion \in ServerVersions
    /\ discovered = NotDiscovered
    /\ collects = 0

\* One call of Service.DiscoverNodes(ctx), start to return.
CollectNodes ==
    /\ collects < MaxCollects
    /\ collects' = collects + 1
    /\ discovered' = DiscoverNodes(clusterName, serverVersion, listFails, apiNodes)
    /\ UNCHANGED <<clusterName, apiNodes, listFails, serverVersion>>
    /\ UNCHANGED <<clientVars, mainVars, concVars, configVars>>

NextCollect == CollectNodes

SpecCollect == InitCollect /\ [][NextCollect]_vars

\* ------------------------------------------------------------------ claims
\* Vocabulary of the claims, stated on the inputs and not through the
\* operators of the client.
SuccessRange == 200..299

StatusText ==
    (101 :> <<"1", "0", "1">>) @@ (200 :> <<"2", "0", "0">>) @@ (299 :> <<"2", "9", "9">>)
    @@ (300 :> <<"3", "0", "0">>) @@ (500 :> <<"5", "0", "0">>)

HasSeparatorAt(tok, i) == i >= 1 /\ i + 1 <= Len(tok) /\ tok[i] = "-" /\ tok[i + 1] = "-"

HasSeparator(tok) == \E i \in 1..Len(tok) : HasSeparatorAt(tok, i)

IsFirstSeparator(tok, i) ==
    HasSeparatorAt(tok, i) /\ \A j \in 1..(i - 1) : ~HasSeparatorAt(tok, j)

SplitsIntoTwoNonEmptyParts(tok) ==
    \E i \in 1..Len(tok) : IsFirstSeparator(tok, i) /\ i > 1 /\ i + 1 < Len(tok)

BodyDecodes(b) == b.kind \in {"object", "null"}

BodyErrorText(b) == IF b.kind = "object" /\ b.hasError THEN b.error ELSE <<>>

GotResponse == calls > 0 /\ lastOutcome.kind = "response"

\* C1: the lifecycle flag starts false and, once true, is never false again,
\* whatever sends follow and whatever their outcomes.
FlagMonotonic == (~initialCompleted) /\ [][initialCompleted => initialCompleted']_vars

\* C1 witness: the flag is set and a later send on the same client has failed.
FlagSetThenFailedSend ==
    /\ initialCompleted
    /\ calls >= 2
    /\ lastOutcome.kind = "response"
    /\ lastErr.isErr

\* C2: a send changes the flag only on a 2xx response whose body decodes with
\* success=true; every other outcome leaves the flag as it was.
FlagChangesOnlyOnConfirmedSuccess ==
    [][(calls' = calls + 1 /\ ~ConfirmedSuccess(lastOutcome'))
          => initialCompleted' = initialCompleted]_vars

\* C2 witness: a 2xx response with success=false arrived and the flag is
\* still false.
FlagKeptOnUnconfirmed2xx ==
    /\ GotResponse
    /\ lastOutcome.status \in SuccessRange
    /\ lastOutcome.body.kind = "object"
    /\ lastOutcome.body.hasSuccess /\ ~lastOutcome.body.success
    /\ ~initialCompleted

\* C3: a transmitted request carries initial="true" iff no earlier send was
\* confirmed: the request that obtains the first confirmed success carries
\* "true", every request after it carries "false".
InitialHeaderFollowsFirstSuccess ==
    \A i \in 1..Len(sent) :
        /\ sent[i].initial \in {"true", "false"}
        /\ (sent[i].initial = "true") <=> (firstConfirmed = 0 \/ i <= firstConfirmed)

\* C3 witness: the first request was confirmed, the next one carried "false"
\* and failed.
SecondRequestAfterSuccessFailed ==
    /\ firstConfirmed = 1
    /\ Len(sent) = 2
    /\ sent[1].initial = "true"
    /\ sent[2].initial = "false"
    /\ lastErr.isErr

\* C4: with no endpoint configured a send returns success and hands no
\* request to the transport, for every credential.
NoEndpointIsNoOp == (endpoint = "") => (sent = <<>> /\ ~lastErr.isErr)

\* C4 witness: a send with no endpoint and the empty credential has returned.
NoEndpointEmptyTokenSent == endpoint = "" /\ token = <<>> /\ calls > 0

\* C5: with an endpoint configured, a credential that does not split on the
\* first "--" into two non-empty parts gives "invalid token format" and no
\* request.
MalformedTokenRejected ==
    (endpoint # "" /\ ~SplitsIntoTwoNonEmptyParts(token)) =>
        /\ sent = <<>>
        /\ (calls > 0 => lastErr.isErr /\ Contains(lastErr.msg, <<"invalid token format">>))

\* C6: the tenant is everything after the first "--", verbatim; a credential
\* without "--" has the empty tenant.  Every request's project is that tenant.
TenantIsRestAfterFirstSeparator ==
    LET t == extractProjectFromToken(token)
    IN  /\ IF HasSeparator(token)
           THEN \E i \in 1..Len(token) :
                    IsFirstSeparator(token, i) /\ t = SubSeq(token, i + 2, Len(token))
           ELSE t = <<>>
        /\ \A k \in 1..Len(sent) : sent[k].body.Project = t

\* C6 witness: a request went out for the credential u---- , whose tenant is
\* the second separator itself.
TenantKeepsFurtherSeparator ==
    /\ token = <<"u", "-", "-", "-", "-">>
    /\ Len(sent) > 0
    /\ sent[1].body.Project = <<"-", "-">>

\* C7: a status outside 200-299 is an error whatever the body says; the
\* message has the status code, and the body's error text exactly when the
\* body decodes and that text is non-empty.
NonSuccessStatusIsError ==
    (GotResponse /\ lastOutcome.status \notin SuccessRange) =>
        /\ lastErr.isErr
        /\ Contains(lastErr.msg, StatusText[lastOutcome.status])
        /\ IF BodyDecodes(lastOutcome.body) /\ BodyErrorText(lastOutcome.body) # <<>>
           THEN Contains(lastErr.msg, BodyErrorText(lastOutcome.body))
           ELSE \A t \in ErrorTexts \ {<<>>} : ~Contains(lastErr.msg, t)

\* C7 witness: a 500 whose body says success=true and error X gave an error
\* with both 500 and X.
Status500WithErrorText ==
    /\ GotResponse
    /\ lastOutcome.status = 500
    /\ lastOutcome.body.kind = "object" /\ lastOutcome.body.success
    /\ lastOutcome.body.error = <<"X">>
    /\ Contains(lastErr.msg, <<"5", "0", "0">>) /\ Contains(lastErr.msg, <<"X">>)

\* C8: a 2xx response whose body cannot be decoded (an empty body too) is a
\* success: the send returns no error.
UndecodableSuccessBodyIsSuccess ==
    (GotResponse /\ lastOutcome.status \in SuccessRange /\ ~BodyDecodes(lastOutcome.body))
        => ~lastErr.isErr

\* C8 witness: a 200 with an empty body came back and the send returned nil.
EmptyBody200Accepted ==
    /\ GotResponse
    /\ lastOutcome.status = 200
    /\ lastOutcome.body.kind = "empty"
    /\ lastErr = nil

\* C9: a 2xx response whose body decodes with success=false is an error whose
\* text contains the body's error field.
RemoteFailureIn2xxIsError ==
    (/\ GotResponse
     /\ lastOutcome.status \in SuccessRange
     /\ lastOutcome.body.kind = "object"
     /\ lastOutcome.body.hasSuccess /\ ~lastOutcome.body.success)
        => lastErr.isErr /\ Contains(lastErr.msg, BodyErrorText(lastOutcome.body))

\* C9 witness: a 200 with success=false and error X gave an error naming X.
Success200FalseWithX ==
    /\ GotResponse
    /\ lastOutcome.status = 200
    /\ lastOutcome.body.kind = "object"
    /\ lastOutcome.body.hasSuccess /\ ~lastOutcome.body.success
    /\ lastOutcome.body.error = <<"X">>
    /\ lastErr.isErr /\ Contains(lastErr.msg, <<"X">>)

\* C10: every call hands at most one request to the transport; a transport
\* failure or a malformed endpoint URL makes the call return an error, with
\* no second attempt.
TransportFailureAbortsWithoutRetry ==
    [][calls' = calls + 1 =>
        /\ Len(sent') <= Len(sent) + 1
        /\ (lastOutcome'.kind \in {"refused", "timeout", "unsupported"}
              => lastErr'.isErr /\ Len(sent') = Len(sent) + 1)
        /\ (endpoint \in {"invalid-url", "://bad"} => lastErr'.isErr)]_vars

\* C10 witness: the only call so far timed out: one request, an error.
TimedOutOnce ==
    /\ calls = 1
    /\ lastOutcome.kind = "timeout"
    /\ Len(sent) = 1
    /\ lastErr.isErr

\* C11: every request handed to the transport is a POST with Content-Type
\* application/json, from-elchi yes, initial true or false, Authorization
\* "Bearer " followed by the raw credential when one is configured, and a body
\* whose project is the tenant of that credential.
RequestShape ==
    \A i \in 1..Len(sent) :
        /\ sent[i].method = "POST"
        /\ sent[i].ContentType = "application/json"
        /\ sent[i].fromElchi = "yes"
        /\ sent[i].initial \in {"true", "false"}
        /\ (token # <<>> => sent[i].hasAuth /\ sent[i].Authorization = <<"Bearer ">> \o token)
        /\ \E j \in 1..Len(token) :
              IsFirstSeparator(token, j) /\ sent[i].body.Project = SubSeq(token, j + 2, Len(token))

\* C11 witness: a request went out for the credential u--u with the whole
\* credential as bearer and u as project.
RequestForValidToken ==
    /\ Len(sent) > 0
    /\ sent[1].Authorization = <<"Bearer ", "u", "-", "-", "u">>
    /\ sent[1].body.Project = <<"u">>

\* ------------------------------------------------------------------ main
\* The credentials and clusters of the main loop: the empty credential, one
\* without separator, a valid one; the empty cluster and one node.
MainTokens == {<<>>, <<"u">>, <<"u", "-", "-", "u">>}

MainClusters ==
    {<<>>, <<Node("w1", {}, <<>>, <<[Type |-> "Ready", Status |-> "False"]>>, <<>>)>>}

\* Mutant: the first cycle waits for the first tick.
WaitsForFirstTick == "select"

\* main runs discovery immediately on startup, before the loop.
StartupPc == "startup"

\* Mutant: a tick starts a cycle of its own, whatever main is doing.
CanTakeTickAnywhere(p) == p \in {"select", "collecting", "sending"}

\* ticker.C is received from only in the select of the loop.
CanTakeTick(p) == p = "select"

\* Mutant: a cycle that logged an error ends the process.
AfterCycleFatal(failed) == IF failed THEN "exited" ELSE "select"

\* runDiscovery returns to the loop whether or not it logged an error.
AfterCycle(failed) == "select"

InitMain ==
    /\ ConcIdle
    /\ ConfigIdle
    /\ endpoint \in Endpoints
    /\ token \in MainTokens
    /\ initialCompleted = FALSE
    /\ sent = <<>>
    /\ calls = 0
    /\ lastOutcome = NoNetwork
    /\ lastErr = nil
    /\ firstConfirmed = 0
    /\ clusterName \in ClusterNames
    /\ apiNodes = <<>>
    /\ listFails = FALSE
    /\ serverVersion = [err |-> FALSE, isNil |-> FALSE, GitVersion |-> "v1.28.2"]
    /\ discovered = NotDiscovered
    /\ collects = 0
    /\ pc = StartupPc
    /\ tickPending = FALSE
    /\ cycles = 0
    /\ ticksTaken = 0
    /\ printed = <<>>
    /\ inFlightCollect = 0
    /\ inFlightSend = 0
    /\ cycleCollects = 0
    /\ cycleSends = 0
    /\ sentAtStart = 0
    /\ cycleFailed = FALSE

\* The ticker fires: the tick is buffered, or dropped when one already waits.
Tick ==
    /\ pc # "exited"
    /\ ~tickPending
    /\ tickPending' = TRUE
    /\ UNCHANGED <<pc, cycles, ticksTaken, printed, inFlightCollect, inFlightSend,
                   cycleCollects, cycleSends, sentAtStart, cycleFailed>>
    /\ UNCHANGED <<clientVars, collectVars, concVars, configVars>>

\* runDiscovery is entered and calls DiscoverNodes.
BeginCycle ==
    /\ cycles < MaxCycles
    /\ cycles' = cycles + 1
    /\ pc' = "collecting"
    /\ inFlightCollect' = inFlightCollect + 1
    /\ cycleCollects' = 0
    /\ cycleSends' = 0
    /\ sentAtStart' = Len(sent)
    /\ UNCHANGED <<printed, inFlightSend, cycleFailed>>
    /\ UNCHANGED <<clientVars, collectVars, concVars, configVars>>

StartFirstCycle ==
    /\ pc = "startup"
    /\ BeginCycle
    /\ UNCHANGED <<tickPending, ticksTaken>>

StartCycleOnTick ==
    /\ CanTakeTick(pc)
    /\ tickPending
    /\ tickPending' = FALSE
    /\ ticksTaken' = ticksTaken + 1
    /\ BeginCycle

\* DiscoverNodes returns; on success the payload is built, marshalled and
\* printed and SendDiscoveryResult is called.
CollectReturns ==
    /\ pc = "collecting"
    /\ \E items \in MainClusters, fails \in BOOLEAN :
        LET d == DiscoverNodes(clusterName, serverVersion, fails, items)
            p == GetDiscoveryPayload(d.result)
        IN  /\ apiNodes' = items
            /\ listFails' = fails
            /\ discovered' = d
            /\ collects' = collects + 1
            /\ inFlightCollect' = inFlightCollect - 1
            /\ cycleCollects' = cycleCollects + 1
            /\ IF d.err.isErr \/ p.err.isErr \/ Marshal(p.payload).isErr
               THEN /\ pc' = AfterCycle(TRUE)
                    /\ cycleFailed' = TRUE
                    /\ UNCHANGED <<printed, inFlightSend, cycleSends>>
               ELSE /\ printed' = Append(printed, p.payload)
                    /\ pc' = "sending"
                    /\ inFlightSend' = inFlightSend + 1
                    /\ cycleSends' = cycleSends + 1
                    /\ UNCHANGED cycleFailed
    /\ UNCHANGED <<clusterName, serverVersion, tickPending, cycles, ticksTaken, sentAtStart>>
    /\ UNCHANGED <<clientVars, concVars, configVars>>

\* SendDiscoveryResult returns; its error is logged and runDiscovery returns.
SendReturns ==
    /\ pc = "sending"
    /\ SendResult(discovered.result)
    /\ inFlightSend' = inFlightSend - 1
    /\ pc' = AfterCycle(lastErr'.isErr)
    /\ cycleFailed' = lastErr'.isErr
    /\ UNCHANGED <<tickPending, cycles, ticksTaken, printed, inFlightCollect,
                   cycleCollects, cycleSends, sentAtStart>>
    /\ UNCHANGED <<collectVars, concVars, configVars>>

\* The case <-ctx.Done() of the select is never ready: ctx is made from
\* context.Background(), which nothing cancels.
NextMain ==
    \/ Tick
    \/ StartFirstCycle
    \/ StartCycleOnTick
    \/ CollectReturns
    \/ SendReturns

SpecMain == InitMain /\ [][NextMain]_vars

\* ------------------------------------------------------------------ concurrent sends
\* Several goroutines call SendDiscoveryResult on one client.  A call is
\* three steps: from entry to the request with its headers (one Load of
\* initialCompleted), handing the request to the transport, and the return of
\* httpClient.Do with what follows it (at most one Store).
Senders == 1..MaxSenders

\* What the transport does with a request of a concurrent caller: no answer
\* until the client's timeout, a confirmed success, a remote failure in a 2xx,
\* a 500.
ConcOutcomes ==
    {[kind |-> "timeout", status |-> 0, body |-> NoBody],
     [kind |-> "response", status |-> 200,
      body |-> [kind |-> "object", hasSuccess |-> TRUE, success |-> TRUE,
                hasError |-> FALSE, error |-> <<>>]],
     [kind |-> "response", status |-> 200,
      body |-> [kind |-> "object", hasSuccess |-> TRUE, success |-> FALSE,
                hasError |-> TRUE, error |-> <<"X">>]],
     [kind |-> "response", status |-> 500, body |-> NoBody]}

\* No request built.
NoRequest ==
    [method |-> "", url |-> "", ContentType |-> "", fromElchi |-> "", initial |-> "",
     hasAuth |-> FALSE, Authorization |-> <<>>,
     body |-> [Project |-> <<>>, Data |-> [NodeCount |-> 0, Timestamp |-> 0]]]

NotInTransit == [outcome |-> NoNetwork, index |-> 0]

\* The success branch is taken: initialCompleted.Store(true) is executed.
StoresTrue(net) ==
    /\ net.kind = "response"
    /\ IsSuccessStatus(net.status)
    /\ ~Decode(net.body).err
    /\ Decode(net.body).resp.Success

\* Mutant: the flag is a plain field each call reads once and writes back.
FlagWrittenBack(net, flag, loaded) ==
    IF net.kind = "response" THEN HandleResponse(net, loaded).flag ELSE loaded

\* initialCompleted after httpClient.Do has returned net to a call that had
\* loaded the value loaded for its header: Store(true) or no write at all.
FlagAfterReturn(net, flag, loaded) ==
    IF net.kind = "response" THEN HandleResponse(net, flag).flag ELSE flag

\* Mutant: the client has no timeout, a request nobody answers never returns.
DoReturnsUnlessUnanswered(net) == net.kind # "timeout"

\* httpClient.Do returns for every outcome: the client's Timeout of 15 seconds
\* ends a request that got no answer.
DoReturns(net) == TRUE

InitConc ==
    /\ CollectIdle
    /\ MainIdle
    /\ ConfigIdle
    /\ endpoint \in {"", "https://api.example.com", "://bad"}
    /\ token \in MainTokens
    /\ initialCompleted = FALSE
    /\ sent = <<>>
    /\ calls = 0
    /\ lastOutcome = NoNetwork
    /\ lastErr = nil
    /\ firstConfirmed = 0
    /\ senderPc = [p \in Senders |-> "idle"]
    /\ senderRequest = [p \in Senders |-> NoRequest]
    /\ inTransit = [p \in Senders |-> NotInTransit]
    /\ started = 0
    /\ headerLog = <<>>
    /\ stored = FALSE

\* Caller p enters SendDiscoveryResult and runs up to the request with its
\* headers, or returns before that.
EnterSend(p) ==
    /\ senderPc[p] = "idle"
    /\ started < MaxConcSends
    /\ started' = started + 1
    /\ \E result \in Results :
        LET shouldSend == TRUE
            pl == GetDiscoveryPayload(result)
            early == IF SkipSend(endpoint, shouldSend) THEN nil
                     ELSE IF pl.err.isErr THEN pl.err
                     ELSE IF Marshal(pl.payload).isErr THEN Marshal(pl.payload)
                     ELSE NewRequest(endpoint)
        IN  IF SkipSend(endpoint, shouldSend) \/ early.isErr
            THEN /\ calls' = calls + 1
                 /\ ReturnEarly(early)
                 /\ UNCHANGED <<senderPc, senderRequest, headerLog>>
            ELSE /\ senderRequest' = [senderRequest EXCEPT ![p] = BuildRequest(pl.payload, initialCompleted)]
                 /\ headerLog' = Append(headerLog, [initial    |-> InitialHeader(initialCompleted),
                                                    afterStore |-> stored])
                 /\ senderPc' = [senderPc EXCEPT ![p] = "built"]
                 /\ UNCHANGED <<initialCompleted, sent, calls, lastOutcome, lastErr, firstConfirmed>>
    /\ UNCHANGED <<endpoint, token, inTransit, stored>>
    /\ UNCHANGED <<collectVars, mainVars, configVars>>

\* Caller p calls httpClient.Do: the transport has the request.
HandToTransport(p) ==
    /\ senderPc[p] = "built"
    /\ \E net \in ConcOutcomes :
        /\ sent' = Do(sent, senderRequest[p], net)
        /\ inTransit' = [inTransit EXCEPT ![p] = [outcome |-> net, index |-> Len(sent')]]
    /\ senderPc' = [senderPc EXCEPT ![p] = "waiting"]
    /\ UNCHANGED <<endpoint, token, initialCompleted, calls, lastOutcome, lastErr, firstConfirmed>>
    /\ UNCHANGED <<senderRequest, started, headerLog, stored>>
    /\ UNCHANGED <<collectVars, mainVars, configVars>>

\* httpClient.Do returns to caller p, which handles the outcome and returns.
DoReturnsTo(p) ==
    /\ senderPc[p] = "waiting"
    /\ DoReturns(inTransit[p].outcome)
    /\ LET net == inTransit[p].outcome
           loaded == senderRequest[p].initial = "false"
       IN  /\ lastOutcome' = net
           /\ lastErr' = IF net.kind = "response"
                         THEN HandleResponse(net, initialCompleted).err
                         ELSE SendFailed(net)
           /\ initialCompleted' = FlagAfterReturn(net, initialCompleted, loaded)
           /\ stored' = (stored \/ StoresTrue(net))
           /\ firstConfirmed' = IF firstConfirmed = 0 /\ ConfirmedSuccess(net)
                                THEN inTransit[p].index ELSE firstConfirmed
    /\ calls' = calls + 1
    /\ senderPc' = [senderPc EXCEPT ![p] = "idle"]
    /\ senderRequest' = [senderRequest EXCEPT ![p] = NoRequest]
    /\ inTransit' = [inTransit EXCEPT ![p] = NotInTransit]
    /\ UNCHANGED <<endpoint, token, sent, started, headerLog>>
    /\ UNCHANGED <<collectVars, mainVars, configVars>>

NextConc ==
    \E p \in Senders :
        \/ EnterSend(p)
        \/ HandToTransport(p)
        \/ DoReturnsTo(p)

SpecConc == InitConc /\ [][NextConc]_vars

\* The scheduler runs every goroutine that can take a step, and the transport
\* answers or the client's timer fires.
FairConc == \A p \in Senders : WF_vars(HandToTransport(p)) /\ WF_vars(DoReturnsTo(p))

SpecConcFair == SpecConc /\ FairConc

\* Load on its own, with one file and one environment.
InitConfig ==
    /\ ClientIdle
    /\ CollectIdle
    /\ MainIdle
    /\ ConcIdle
    /\ configFile \in ConfigFiles
    /\ environ \in Environs
    /\ config = NotLoaded
    /\ loads = 0

\* One call of config.Load, as main makes it at startup.
LoadConfig ==
    /\ loads = 0
    /\ loads' = loads + 1
    /\ config' = Load(configFile, environ)
    /\ UNCHANGED <<configFile, environ>>
    /\ UNCHANGED <<clientVars, collectVars, mainVars, concVars>>

NextConfig == LoadConfig

SpecConfig == InitConfig /\ [][NextConfig]_vars

\* Vocabulary of the collector's claims.
Collected == collects > 0 /\ ~discovered.isNil

Report == discovered.result

RoleSet(roles) == {roles[i] : i \in 1..Len(roles)}

HasRoleTaint(node) ==
    \E i \in 1..Len(node.Taints) : node.Taints[i] \in {LabelControlPlane, LabelMaster}

\* The roles the labels alone stand for.
ExpectedLabelRoles(labels) ==
    {r \in {"control-plane", "master", "worker", "etcd"} :
        \/ r = "control-plane" /\ LabelControlPlane \in labels
        \/ r = "master" /\ LabelMaster \in labels /\ LabelControlPlane \notin labels
        \/ r = "worker" /\ LabelWorker \in labels
        \/ r = "etcd" /\ LabelEtcd \in labels}

\* C16: a failed server-version query does not fail collect: the report has
\* version "unknown" and the configured cluster name; a version the server
\* returned is the report's version.
VersionIsBestEffort ==
    collects > 0 =>
        /\ discovered.err.isErr <=> listFails
        /\ ~listFails =>
              /\ ~discovered.isNil
              /\ Report.ClusterInfo.Name = clusterName
              /\ (serverVersion.err => Report.ClusterInfo.Version = "unknown")
              /\ (~serverVersion.err /\ ~serverVersion.isNil
                    => Report.ClusterInfo.Version = serverVersion.GitVersion)

\* C16 witness: the version query failed for cluster prod and the report says
\* prod, unknown.
VersionQueryFailedReport ==
    /\ Collected
    /\ serverVersion.err
    /\ clusterName = "prod"
    /\ Report.ClusterInfo = [Name |-> "prod", Version |-> "unknown"]

\* C17: node_count is the length of nodes, which is the number of nodes the
\* API listed, in listing order; an empty cluster gives 0 and no error.
NodeCountIsLenNodes ==
    (collects > 0 /\ ~listFails) =>
        /\ ~discovered.isNil /\ ~discovered.err.isErr
        /\ Report.NodeCount = Len(Report.Nodes)
        /\ Len(Report.Nodes) = Len(apiNodes)
        /\ \A i \in 1..Len(apiNodes) : Report.Nodes[i].Name = apiNodes[i].Name
        /\ (apiNodes = <<>> => Report.NodeCount = 0 /\ Report.Nodes = <<>>)

\* C17 witness: two different nodes were listed and the report counts two.
TwoNodesReported ==
    /\ Collected
    /\ Len(apiNodes) = 2
    /\ apiNodes[1].Name # apiNodes[2].Name
    /\ Report.NodeCount = 2
    /\ Report.Nodes[2].Name = apiNodes[2].Name

\* C18: with both the control-plane and the master label the roles have
\* control-plane and not master; master appears only with the master label
\* and without the control-plane label; no role list has both.
ControlPlaneSuppressesMaster ==
    Collected =>
        \A i \in 1..Len(Report.Nodes) :
            LET labels == apiNodes[i].Labels
                roles == RoleSet(Report.Nodes[i].Roles)
            IN  /\ ({LabelControlPlane, LabelMaster} \subseteq labels
                       => "control-plane" \in roles /\ "master" \notin roles)
                /\ ("master" \in roles
                       <=> (LabelMaster \in labels /\ LabelControlPlane \notin labels))
                /\ ~({"control-plane", "master"} \subseteq roles)

\* C18 witness: a node with both labels and nothing else is control-plane.
BothLabelsNode ==
    /\ Collected
    /\ Len(apiNodes) = 1
    /\ apiNodes[1].Labels = {LabelControlPlane, LabelMaster}
    /\ Report.Nodes[1].Roles = <<"control-plane">>

\* C19: no role list is empty, and a node with none of the four role labels
\* and no control-plane or master taint has exactly worker.
RolesNeverEmpty ==
    Collected =>
        \A i \in 1..Len(Report.Nodes) :
            /\ Report.Nodes[i].Roles # <<>>
            /\ (apiNodes[i].Labels \cap RoleLabels = {} /\ ~HasRoleTaint(apiNodes[i])
                   => Report.Nodes[i].Roles = <<"worker">>)

\* C19 witness: a node with only a hostname label and an unschedulable taint
\* is a worker.
UnlabelledNodeIsWorker ==
    /\ Collected
    /\ Len(apiNodes) = 1
    /\ apiNodes[1].Labels = {"kubernetes.io/hostname"}
    /\ apiNodes[1].Taints = <<"node.kubernetes.io/unschedulable">>
    /\ Report.Nodes[1].Roles = <<"worker">>

\* C20: taints count only when the labels gave no role: no role label and a
\* control-plane or master taint gives exactly control-plane; with any role
\* label the roles are those of the labels, each once, whatever the taints.
TaintsOnlyWithoutRoleLabels ==
    Collected =>
        \A i \in 1..Len(Report.Nodes) :
            LET node == apiNodes[i]
                roles == Report.Nodes[i].Roles
            IN  /\ (node.Labels \cap RoleLabels = {} /\ HasRoleTaint(node)
                       => roles = <<"control-plane">>)
                /\ (node.Labels \cap RoleLabels # {}
                       => /\ RoleSet(roles) = ExpectedLabelRoles(node.Labels)
                          /\ Len(roles) = Cardinality(RoleSet(roles)))

\* C20 witness: a node with the worker label and a control-plane taint is a
\* worker only.
WorkerLabelWithTaint ==
    /\ Collected
    /\ Len(apiNodes) = 1
    /\ apiNodes[1].Labels = {LabelWorker}
    /\ apiNodes[1].Taints = <<LabelControlPlane>>
    /\ Report.Nodes[1].Roles = <<"worker">>

IsReadyCondition(c) == c.Type = "Ready"

\* C21: a node's status depends only on its Ready condition: Ready when it is
\* present and true, NotReady when it is present with another value, Unknown
\* when it is absent; conditions of other types change nothing (of several
\* Ready conditions the first one counts).
StatusFollowsReadyCondition ==
    Collected =>
        \A i \in 1..Len(Report.Nodes) :
            LET readys == SelectSeq(apiNodes[i].Conditions, IsReadyCondition)
                status == Report.Nodes[i].Status
            IN  /\ (readys = <<>> <=> status = "Unknown")
                /\ (readys # <<>> /\ readys[1].Status = "True" <=> status = "Ready")
                /\ (readys # <<>> /\ readys[1].Status # "True" <=> status = "NotReady")

\* C21 witness: a node whose conditions are MemoryPressure true, then Ready
\* unknown, is NotReady.
PressureThenReadyUnknown ==
    /\ Collected
    /\ Len(apiNodes) = 1
    /\ apiNodes[1].Conditions = <<[Type |-> "MemoryPressure", Status |-> "True"],
                                  [Type |-> "Ready", Status |-> "Unknown"]>>
    /\ Report.Nodes[1].Status = "NotReady"

AddressTypes(addresses) == {addresses[k].Type : k \in 1..Len(addresses)}

LastOfType(addresses, t) ==
    CHOOSE k \in 1..Len(addresses) :
        /\ addresses[k].Type = t
        /\ \A j \in (k + 1)..Len(addresses) : addresses[j].Type # t

\* C22: a node's addresses mapping has exactly one entry per distinct address
\* type the node reported, holding the address of that type's last occurrence.
AddressesLastWriteWins ==
    Collected =>
        \A i \in 1..Len(Report.Nodes) :
            LET addresses == apiNodes[i].Addresses
                m == Report.Nodes[i].Addresses
            IN  /\ {e[1] : e \in m} = AddressTypes(addresses)
                /\ Cardinality(m) = Cardinality(AddressTypes(addresses))
                /\ \A t \in AddressTypes(addresses) :
                      <<t, addresses[LastOfType(addresses, t)].Address>> \in m

\* C22 witness: a node that reported InternalIP twice has one InternalIP
\* entry, with the second address.
InternalIPReportedTwice ==
    /\ Collected
    /\ Len(apiNodes) = 1
    /\ Len(apiNodes[1].Addresses) = 2
    /\ apiNodes[1].Addresses[1] = [Type |-> "InternalIP", Address |-> "10.0.0.1"]
    /\ apiNodes[1].Addresses[2] = [Type |-> "InternalIP", Address |-> "10.0.0.2"]
    /\ Report.Nodes[1].Addresses = {<<"InternalIP", "10.0.0.2">>}

\* Vocabulary of the main loop's claims.
ValidMainToken == <<"u", "-", "-", "u">>

WellFormedEndpoint == "https://api.example.com"

\* C12: cycles never overlap: at most one collection and at most one send
\* are in flight, and never both.
CyclesNeverOverlap ==
    /\ inFlightCollect \in {0, 1}
    /\ inFlightSend \in {0, 1}
    /\ inFlightCollect + inFlightSend <= 1
    /\ (pc = "collecting" <=> inFlightCollect = 1)
    /\ (pc = "sending" <=> inFlightSend = 1)

\* C12 witness: the second cycle is collecting while the tick that fired in
\* the meantime waits in the channel.
SecondCycleWithTickWaiting ==
    /\ cycles = 2
    /\ pc = "collecting"
    /\ tickPending
    /\ inFlightCollect = 1

\* C13: a cycle that failed does not stop the loop: main is then at its
\* select, or in a later cycle, and a waiting tick starts a new cycle, which
\* begins with a collection.
LoopSurvivesFailedCycle ==
    cycleFailed =>
        /\ pc \in {"select", "collecting", "sending"}
        /\ (pc = "select" /\ tickPending /\ cycles < MaxCycles => ENABLED StartCycleOnTick)

\* C13 witness: the first cycle's send returned an error and the second cycle
\* is collecting.
CycleAfterFailedSend ==
    /\ cycleFailed
    /\ lastErr.isErr
    /\ cycles = 2
    /\ pc = "collecting"

\* C14: the first cycle takes no tick; in a cycle the send comes after the
\* collection and there is at most one of each; a finished cycle with a
\* well-formed endpoint, a valid credential and a report has handed exactly
\* one request to the transport.
CycleShape ==
    /\ (cycles = 0 => pc = "startup" /\ ticksTaken = 0)
    /\ (cycles > 0 => ticksTaken = cycles - 1)
    /\ cycleCollects <= 1
    /\ cycleSends <= 1
    /\ (cycleSends = 1 => cycleCollects = 1)
    /\ (pc = "sending" => cycleSends = 1)
    /\ (/\ pc = "select"
        /\ endpoint = WellFormedEndpoint
        /\ token = ValidMainToken
        /\ ~discovered.isNil)
          => Len(sent) = sentAtStart + 1

\* C14 witness: the startup cycle has finished, no tick was taken, and its
\* one request is out.
StartupCycleSentOne ==
    /\ cycles = 1
    /\ ticksTaken = 0
    /\ pc = "select"
    /\ Len(sent) = 1
    /\ cycleSends = 1

\* C15: when the node list fails, DiscoverNodes returns an error and no
\* report, and the cycle makes no send and hands no request to the transport.
ListFailureSkipsSend ==
    listFails =>
        /\ discovered.isNil
        /\ discovered.err.isErr
        /\ pc # "sending"
        /\ cycleSends = 0
        /\ Len(sent) = sentAtStart
        /\ Len(printed) < cycles

\* C15 witness: the node list failed in the second cycle of a loop that can
\* send, and the cycle is over with only the first cycle's request out.
ListFailedInSecondCycle ==
    /\ listFails
    /\ endpoint = WellFormedEndpoint
    /\ token = ValidMainToken
    /\ cycles = 2
    /\ pc = "select"
    /\ Len(sent) = 1

\* C23: with several sends running concurrently on one client the flag never
\* goes from true to false, and every request whose header was computed after
\* some send had recorded a confirmed success carries initial="false".
ConcurrentFlagMonotonic ==
    /\ [](\A i \in 1..Len(headerLog) :
            headerLog[i].afterStore => headerLog[i].initial = "false")
    /\ [][initialCompleted => initialCompleted']_vars

\* C23 witness: caller 1 built its request before any success was recorded
\* and is still waiting for the transport, while caller 2 has built a request
\* after the success was recorded: the two carry "true" and "false".
OldAndNewHeaderInFlight ==
    /\ stored
    /\ initialCompleted
    /\ senderPc[1] = "waiting"
    /\ senderRequest[1].initial = "true"
    /\ senderPc[2] = "built"
    /\ senderRequest[2].initial = "false"

\* C27: every send returns: with no endpoint or an invalid credential it
\* returns without handing anything to the transport, and a call that waits
\* for the transport returns when the answer arrives or the timeout expires.
SendEventuallyReturns ==
    /\ []((endpoint = "" \/ token # ValidMainToken)
            => (sent = <<>> /\ \A p \in Senders : senderPc[p] = "idle"))
    /\ \A p \in Senders : (senderPc[p] # "idle") ~> (senderPc[p] = "idle")

\* C27 witness: a call whose request got no answer has returned with the
\* transport's error while the other caller still waits for its own answer.
TimedOutCallReturned ==
    /\ calls > 0
    /\ lastOutcome.kind = "timeout"
    /\ lastErr.isErr
    /\ senderPc[1] = "idle"
    /\ senderPc[2] = "waiting"

\* Vocabulary of the configuration claim.
Loaded == loads > 0 /\ ~config.isNil

ClaimedDefaults ==
    [DiscoveryInterval |-> 30, Token |-> <<>>, APIEndpoint |-> <<>>, InsecureSkipVerify |-> FALSE]

\* The text is a way of writing the value v of setting k.
Denotes(k, text, v) ==
    IF k = "DiscoveryInterval"
    THEN \/ v >= 0 /\ text \in {Itoa(v), <<"+">> \o Itoa(v)}
         \/ v <= 0 /\ text = <<"-">> \o Itoa(0 - v)
    ELSE IF k = "InsecureSkipVerify"
    THEN (v /\ text \in TrueTexts) \/ (~v /\ text \in FalseTexts)
    ELSE v = text

IntervalValues == (0 - 99)..99

ValuesOf(k) ==
    IF k = "DiscoveryInterval" THEN IntervalValues
    ELSE IF k = "InsecureSkipVerify" THEN BOOLEAN
    ELSE {environ[EnvName[k]]}

HasValue(k, text) == \E v \in ValuesOf(k) : Denotes(k, text, v)

\* What the file, or else the default, gives setting k.
FileOrDefault(k) ==
    IF configFile.kind = "yaml" /\ k \in configFile.keys THEN FileValues[k] ELSE ClaimedDefaults[k]

\* C24 as stated: for the interval, the credential, the endpoint and the TLS
\* bypass, a non-empty environment variable overrides the file value, a file
\* value overrides the default, and a setting in neither keeps its default.
EnvOverridesFileOverridesDefault ==
    Loaded =>
        \A k \in DeliverySettings :
            IF environ[EnvName[k]] # <<>>
            THEN Denotes(k, environ[EnvName[k]], config.cfg[k])
            ELSE config.cfg[k] = FileOrDefault(k)

\* C24 amended: a non-empty environment variable overrides the file value
\* when it parses as the setting's type (an integer for the interval, a
\* boolean for the TLS bypass; any text for the credential and the endpoint);
\* one that does not parse is ignored like an empty one.  A file value
\* overrides the default and a setting in neither keeps its default (30,
\* empty endpoint and credential, false).
EnvOverridesWhenItParses ==
    Loaded =>
        \A k \in DeliverySettings :
            IF environ[EnvName[k]] # <<>> /\ HasValue(k, environ[EnvName[k]])
            THEN Denotes(k, environ[EnvName[k]], config.cfg[k])
            ELSE config.cfg[k] = FileOrDefault(k)

\* C24 witness: the file sets the interval and the credential, the
\* environment sets the interval to abc and the credential to e--p: the
\* loaded interval is the file's 45, the credential the environment's.
UnparsableIntervalKeepsFile ==
    /\ Loaded
    /\ configFile.kind = "yaml"
    /\ {"DiscoveryInterval", "Token"} \subseteq configFile.keys
    /\ environ["DISCOVERY_INTERVAL"] = <<"a", "b", "c">>
    /\ environ["ELCHI_TOKEN"] = <<"e", "-", "-", "p">>
    /\ config.cfg.DiscoveryInterval = 45
    /\ config.cfg.Token = <<"e", "-", "-", "p">>

\* C26: the envelope printed in a cycle is the envelope the cycle's send
\* hands to the transport (same project, same report); the report is the one
\* the collection returned, it has no project of its own, and the send leaves
\* it as it was.
PrintedIsWhatIsSent ==
    /\ [](/\ (Len(sent) > sentAtStart =>
                 /\ printed # <<>>
                 /\ sent[Len(sent)].body = printed[Len(printed)])
          /\ (cycleSends = 1 =>
                 /\ printed # <<>>
                 /\ printed[Len(printed)].Data = discovered.result
                 /\ \E j \in 1..Len(token) :
                       /\ IsFirstSeparator(token, j)
                       /\ printed[Len(printed)].Project = SubSeq(token, j + 2, Len(token)))
          /\ "Project" \notin DOMAIN discovered.result)
    /\ [][pc = "sending" => discovered' = discovered]_vars

\* C26 witness: the second cycle printed an envelope with one node and sent
\* that same envelope, after a first cycle that sent an empty cluster.
SecondCycleSentWhatItPrinted ==
    /\ cycles = 2
    /\ pc = "select"
    /\ Len(printed) = 2
    /\ Len(sent) = 2
    /\ printed[1].Data.NodeCount = 0
    /\ printed[2].Data.NodeCount = 1
    /\ sent[2].body = printed[2]

EveryRequestIsAuthorized ==
    /\ \A i \in 1..Len(sent) :
          /\ sent[i].hasAuth
          /\ Len(sent[i].Authorization) > 1
          /\ sent[i].Authorization[1] = "Bearer "
          /\ sent[i].body.Project # <<>>
    /\ (token = <<>> =>
          /\ sent = <<>>
          /\ (calls > 0 /\ endpoint # "" =>
                 /\ lastOutcome = NoNetwork
                 /\ lastErr.isErr
                 /\ Contains(lastErr.msg, <<"invalid token format">>)))

\* C29 witness: a send with an endpoint and the empty credential has failed
\* and nothing went to the transport.
EmptyCredentialSendFailed ==
    /\ token = <<>>
    /\ endpoint = WellFormedEndpoint
    /\ calls > 0
    /\ lastErr.isErr
    /\ sent = <<>>

\* C30: a 2xx response whose body is a JSON object without a success field
\* is a failure: the send returns "API processing failed: " followed by the
\* body's error text (nothing when there is no error field) and the flag is
\* left alone; a 2xx send returns no error only when success=true was decoded
\* or the body did not decode.
AbsentSuccessIsFailure ==
    [][(/\ calls' = calls + 1
        /\ lastOutcome'.kind = "response"
        /\ lastOutcome'.status \in SuccessRange) =>
          LET b == lastOutcome'.body
          IN  /\ (b.kind = "object" /\ ~b.hasSuccess =>
                    /\ lastErr'.isErr
                    /\ lastErr'.msg = <<"API processing failed: ">> \o BodyErrorText(b)
                    /\ initialCompleted' = initialCompleted)
              /\ (~lastErr'.isErr =>
                    \/ ~BodyDecodes(b)
                    \/ b.kind = "object" /\ b.hasSuccess /\ b.success)]_vars

\* C30 witness: a 200 whose body is an object with neither success nor error
\* gave "API processing failed: " with no text, and the flag is still false.
EmptyObject200Failed ==
    /\ GotResponse
    /\ lastOutcome.status = 200
    /\ lastOutcome.body.kind = "object"
    /\ ~lastOutcome.body.hasSuccess
    /\ ~lastOutcome.body.hasError
    /\ lastErr = Errorf(<<"API processing failed: ">>)
    /\ ~initialCompleted

====
